---- MODULE Spec2Model ----
(***************************************************************************)
(* Session state of the meeting page (src/y/app/meeting/page.tsx): the     *)
(* React state cells of MeetingPage, the DataReceived handler, the map     *)
(* update handler, the itinerary handlers, the route-derivation effect,    *)
(* the tool-notification queue, the checkout flow and the room connection; *)
(* the research run of the itinerary panel (itinerary-panel.tsx) against   *)
(* the research route (api/research-itinerary/route.ts).                   *)
(*                                                                         *)
(* Conventions.  An optional JavaScript value (undefined / null / absent   *)
(* field) is None == <<>>, a present one is Some(v) == <<v>>.  A string    *)
(* that the code inspects (toLowerCase, includes) is a sequence of one-    *)
(* character strings.  Coordinates are pairs of opaque numerals.           *)
(***************************************************************************)
EXTENDS Integers, Sequences, FiniteSets, Bags, TLC

VARIABLES
    itinerary,          \* useState<ItineraryItem[]>([])
    mapRoute,           \* useState<any>(null)
    mapMarkers,         \* useState<any[]>([])
    flyToTarget,        \* useState<{coordinates, name, zoom} | null>(null)
    routeRequests,      \* calculateItineraryRoute() calls awaiting their fetch
    agentState,         \* useState<string>("idle")
    agentThinkingMessage,
    currentTool,
    toolNotifications,  \* useState<ToolNotification[]>([])
    expiryTimers,       \* pending setTimeout(…, 3000) callbacks, by notification id
    nextNotificationId, \* stands for `${Date.now()}-${Math.random()…}`
    walletConnected,    \* useWallet().connected (with publicKey, sendTransaction)
    showWalletOverlay,  \* useState(true)
    isProcessingPayment,\* useState(false)
    paymentStatus,      \* useState({ type: null, message: "" })
    checkouts,          \* handleCheckout() invocations suspended at an await
    dismissTimers,      \* pending setTimeout(…, 10000) callbacks of successful checkouts
    transfers,          \* transfers handed to sendTransaction, each with the panel's total then
    mounted,            \* MeetingPage is mounted
    connectToRoom,      \* the await connectToRoom() is parked at, or "returned"
    roomState,          \* connection state of the Room object connectToRoom() creates
    room,               \* useState<Room | null>(null)
    isConnected,        \* useState(false)
    showResearchModal,  \* ItineraryPanel: useState(false)
    researchProgress,   \* useState(0)
    currentResearchItem,\* useState("")
    researchResults,    \* useState<ResearchResult[]>([])
    isResearchComplete, \* useState(false)
    startResearch,      \* the await startResearch() is parked at, with the items it sent
    consumed,           \* number of stream records startResearch() has read
    stream,             \* the research route's response stream, None before a request
    tokenRequests,      \* token route: the await each POST is parked at, with its hasAgent
    roomParticipants,   \* LiveKit: the participants of the room the requests name
    dispatches,         \* LiveKit: agent dispatches created for that room
    lastEvent           \* the handler that ran last, with its input

vars == << itinerary, mapRoute, mapMarkers, flyToTarget, routeRequests,
           agentState, agentThinkingMessage, currentTool, toolNotifications,
           expiryTimers, nextNotificationId, walletConnected, showWalletOverlay,
           isProcessingPayment, paymentStatus, checkouts, dismissTimers, transfers,
           mounted, connectToRoom, roomState, room, isConnected,
           showResearchModal, researchProgress, currentResearchItem,
           researchResults, isResearchComplete, startResearch, consumed, stream,
           tokenRequests, roomParticipants, dispatches, lastEvent >>

itineraryVars == << itinerary, mapRoute, flyToTarget, routeRequests >>
agentVars == << agentState, agentThinkingMessage, currentTool, toolNotifications,
                expiryTimers, nextNotificationId >>
paymentVars == << walletConnected, showWalletOverlay, isProcessingPayment,
                  paymentStatus, checkouts, dismissTimers, transfers >>
roomVars == << mounted, connectToRoom, roomState, room, isConnected >>
researchVars == << showResearchModal, researchProgress, currentResearchItem,
                   researchResults, isResearchComplete, startResearch, consumed,
                   stream >>
tokenVars == << tokenRequests, roomParticipants, dispatches >>

----------------------------------------------------------------------------
(* Bounds of the model. *)

MaxRouteRequests == 2
MaxMarkers == 4
MaxNotifications == 5
MaxCheckouts == 2
MaxDismissTimers == 1
MaxTokenRequests == 3

----------------------------------------------------------------------------
(* Optional values and strings. *)

None == << >>
Some(v) == << v >>
IsSome(o) == o /= << >>
Get(o) == o[1]

\* String.prototype.toLowerCase, one character
LowerChar(c) ==
    CASE c = "A" -> "a"
      [] c = "B" -> "b"
      [] OTHER -> c

\* String.prototype.toLowerCase
ToLowerCase(str) == [k \in 1..Len(str) |-> LowerChar(str[k])]

\* String.prototype.includes: some offset at which sub occurs in str
RECURSIVE IncludesFrom(_, _, _)
IncludesFrom(str, sub, k) ==
    IF k + Len(sub) - 1 > Len(str) THEN FALSE
    ELSE IF SubSeq(str, k, k + Len(sub) - 1) = sub THEN TRUE
    ELSE IncludesFrom(str, sub, k + 1)

Includes(str, sub) == IncludesFrom(str, sub, 1)

\* what a template literal or includes() makes of an undefined argument
UndefinedText == << "u", "n", "d", "e", "f", "i", "n", "e", "d" >>

----------------------------------------------------------------------------
(* Itinerary items (ItineraryItem of itinerary-panel.tsx). Two of the items *)
(* share an id and differ in content; two items carry no coordinates.       *)

Item(id, name, type, estimatedCost, coordinates) ==
    [id |-> id, name |-> name, type |-> type, estimatedCost |-> estimatedCost,
     coordinates |-> coordinates]

ItemR1 == Item("r1", << "A", "b" >>, "restaurant", 45, Some(<< "34.0", "-118.2" >>))
ItemH1 == Item("h1", << "a", "B" >>, "hotel", 250, Some(<< "34.05", "-118.25" >>))
ItemA1 == Item("a1", << "B" >>, "activity", 30, None)
ItemR1b == Item("r1", << "b", "a" >>, "restaurant", 45, None)

Items == { ItemR1, ItemH1, ItemA1, ItemR1b }

\* items.reduce((sum, item) => sum + item.estimatedCost, 0), the total the
\* panel displays
RECURSIVE totalCost(_)
totalCost(items) ==
    IF items = << >> THEN 0
    ELSE Head(items).estimatedCost + totalCost(Tail(items))

\* item.coordinates && item.coordinates.length >= 2
HasCoordinates(item) ==
    IsSome(item.coordinates) /\ Len(Get(item.coordinates)) >= 2

\* itinerary.filter(item => item.coordinates && item.coordinates.length >= 2)
ItemsWithCoords(items) == SelectSeq(items, HasCoordinates)

\* prev.some((i) => i.id === id)
SomeId(items, id) == \E k \in 1..Len(items) : items[k].id = id

----------------------------------------------------------------------------
(* Itinerary updates (the updater functions handed to setItinerary). *)

\* the append without the duplicate check
AddItemUnchecked(prev, newItem) == Append(prev, newItem)

\* page.tsx 157-163 and 384-390: the duplicate check and the append
AddItem(prev, newItem) ==
    IF SomeId(prev, newItem.id) THEN prev ELSE Append(prev, newItem)

\* the filter without toLowerCase on the item's name
RemoveByNameCaseSensitive(prev, item_name) ==
    LET itemName == IF IsSome(item_name) THEN ToLowerCase(Get(item_name))
                    ELSE UndefinedText
        Keeps(i) == ~Includes(i.name, itemName)
    IN SelectSeq(prev, Keeps)

\* page.tsx 175-176: data.item_name?.toLowerCase(), then the filter.
\* includes(undefined) searches for the text "undefined".
RemoveByName(prev, item_name) ==
    LET itemName == IF IsSome(item_name) THEN ToLowerCase(Get(item_name))
                    ELSE UndefinedText
        Keeps(i) == ~Includes(ToLowerCase(i.name), itemName)
    IN SelectSeq(prev, Keeps)

\* page.tsx 403: prev.filter((i) => i.id !== itemId)
RemoveById(prev, itemId) ==
    LET Keeps(i) == i.id /= itemId IN SelectSeq(prev, Keeps)

\* arrayMove of @dnd-kit/sortable as handleDragEnd calls it (0-based indices
\* in the code, 1-based here): take the element out, put it in at newIndex
ArrayMove(items, oldIndex, newIndex) ==
    LET moved == items[oldIndex]
        rest == SubSeq(items, 1, oldIndex - 1) \o SubSeq(items, oldIndex + 1, Len(items))
    IN SubSeq(rest, 1, newIndex - 1) \o << moved >> \o SubSeq(rest, newIndex, Len(rest))

----------------------------------------------------------------------------
(* Route derivation: useEffect(..., [itinerary]), page.tsx 415-489. *)

\* page.tsx 422-425
Waypoints(itemsWithCoords) ==
    [k \in 1..Len(itemsWithCoords) |->
        [location |-> Some(itemsWithCoords[k].name),
         coordinates |-> itemsWithCoords[k].coordinates]]

\* page.tsx 459-462
DirectPath(itemsWithCoords) ==
    [k \in 1..Len(itemsWithCoords) |-> Get(itemsWithCoords[k].coordinates)]

Route(path, waypoints) == [path |-> path, waypoints |-> waypoints]

\* the branch of the effect that clears the route (page.tsx 485-488)
EffectClearsRoute(items) == Len(items) = 0

\* mapRoute after the synchronous part of the effect
RouteAfterEffect(items, route) ==
    IF Len(ItemsWithCoords(items)) >= 2 THEN route
    ELSE IF Len(ItemsWithCoords(items)) = 1 THEN route
    ELSE IF EffectClearsRoute(items) THEN None
    ELSE route

\* flyToTarget after the synchronous part of the effect (page.tsx 478-484)
FlyAfterEffect(items, fly) ==
    LET withCoords == ItemsWithCoords(items) IN
    IF Len(withCoords) = 1
    THEN Some([coordinates |-> Get(withCoords[1].coordinates),
               name |-> withCoords[1].name, zoom |-> 15])
    ELSE fly

\* the requests in flight after the effect called calculateItineraryRoute()
RequestsAfterEffect(items, requests) ==
    IF Len(ItemsWithCoords(items)) >= 2
    THEN requests (+) SetToBag({ ItemsWithCoords(items) })
    ELSE requests

\* The itinerary state cell receives `items`; `changed` says whether React
\* sees a new array (a new reference re-runs the effect, the same one does
\* not); `fly` is flyToTarget as the handler itself left it.
CommitItinerary(items, changed, fly) ==
    /\ itinerary' = items
    /\ IF changed
       THEN /\ BagCardinality(RequestsAfterEffect(items, routeRequests)) <= MaxRouteRequests
            /\ mapRoute' = RouteAfterEffect(items, mapRoute)
            /\ flyToTarget' = FlyAfterEffect(items, fly)
            /\ routeRequests' = RequestsAfterEffect(items, routeRequests)
       ELSE /\ mapRoute' = mapRoute
            /\ flyToTarget' = fly
            /\ routeRequests' = routeRequests

\* page.tsx 166-172 and 393-399: the focus command of an add
FlyAfterAdd(item, fly) ==
    IF HasCoordinates(item)
    THEN Some([coordinates |-> Get(item.coordinates), name |-> item.name, zoom |-> 17])
    ELSE fly

\* what an add leaves in the itinerary and in the focus command
Added(items, fly) == [itinerary |-> items, flyToTarget |-> fly]

\* page.tsx 154-172: the ITINERARY_ADD branch of the listener
ItineraryAdded(prev, fly, newItem) ==
    Added(IF SomeId(prev, newItem.id) THEN prev ELSE Append(prev, newItem),
          IF HasCoordinates(newItem)
          THEN Some([coordinates |-> Get(newItem.coordinates), name |-> newItem.name,
                     zoom |-> 17])
          ELSE fly)

\* an add that appends whatever it is given
AddedToItineraryUnchecked(prev, fly, item) ==
    Added(AddItemUnchecked(prev, item), FlyAfterAdd(item, fly))

\* page.tsx 383-400: the body of handleAddToItinerary
AddedToItinerary(prev, fly, item) ==
    Added(AddItem(prev, item), FlyAfterAdd(item, fly))

\* What the routing service can answer: the fetch throws, or a response
\* arrives with response.ok and a body whose path is absent or a list.
ServerPaths ==
    { << >>,
      << << "34.02", "-118.22" >> >>,
      << << "34.0", "-118.2" >>, << "34.02", "-118.22" >>, << "34.05", "-118.25" >> >> }

Responses ==
    { [throws |-> TRUE, ok |-> FALSE, path |-> None] }
    \cup { [throws |-> FALSE, ok |-> FALSE, path |-> None] }
    \cup { [throws |-> FALSE, ok |-> TRUE, path |-> None] }
    \cup { [throws |-> FALSE, ok |-> TRUE, path |-> Some(p)] : p \in ServerPaths }

\* page.tsx 440-442: response.ok and routeData.path && routeData.path.length > 0
ResponseAccepted(response) ==
    response.ok /\ IsSome(response.path) /\ Len(Get(response.path)) > 0

\* mapRoute after calculateItineraryRoute() resumes with `response`
\* (page.tsx 440-474); itemsWithCoords is the list its closure captured
RouteAfterResponse(itemsWithCoords, response, route) ==
    IF response.throws
    THEN IF Len(DirectPath(itemsWithCoords)) >= 2
         THEN Some(Route(Some(DirectPath(itemsWithCoords)), Some(Waypoints(itemsWithCoords))))
         ELSE route
    ELSE IF ResponseAccepted(response)
         THEN Some(Route(response.path, Some(Waypoints(itemsWithCoords))))
         ELSE route

----------------------------------------------------------------------------
(* Inbound messages: the object JSON.parse returns (page.tsx 128). *)

Message ==
    [type |-> None, item |-> None, item_name |-> None, state |-> None,
     thinking_message |-> None, tool_name |-> None, data |-> None,
     route |-> None, path |-> None, waypoints |-> None]

ItineraryAddMessage(item) ==
    [Message EXCEPT !.type = Some("ITINERARY_ADD"), !.item = Some(item)]
ItineraryRemoveMessage(item_name) ==
    [Message EXCEPT !.type = Some("ITINERARY_REMOVE"), !.item_name = item_name]
ItineraryClearMessage == [Message EXCEPT !.type = Some("ITINERARY_CLEAR")]
PaymentExecuteMessage == [Message EXCEPT !.type = Some("PAYMENT_EXECUTE")]
AgentStateMessage(state, tool_name, thinking_message) ==
    [Message EXCEPT !.type = Some("AGENT_STATE"), !.state = state,
                    !.tool_name = tool_name, !.thinking_message = thinking_message]
MapUpdateMessage(data) ==
    [Message EXCEPT !.type = Some("MAP_UPDATE"), !.data = data]
RouteUpdateMessage(route, path, waypoints) ==
    [Message EXCEPT !.type = Some("ROUTE_UPDATE"), !.route = route,
                    !.path = path, !.waypoints = waypoints]

TypeIs(data, type) == data.type = Some(type)

----------------------------------------------------------------------------
(* handleMapUpdate, page.tsx 224-285. *)

Marker(id, coordinates, type, label) ==
    [id |-> id, coordinates |-> coordinates, type |-> type, label |-> label]

\* page.tsx 228-233, 237-242, 246-251
PlaceMarkers(places, type) ==
    [k \in 1..Len(places) |->
        Marker(places[k].name, places[k].coordinates, type, None)]

\* the restaurants of the payload in place of the list
MarkersReplacedByMapUpdate(data, prev) ==
    IF IsSome(data.data) /\ IsSome(Get(data.data).restaurants)
    THEN PlaceMarkers(Get(Get(data.data).restaurants), "restaurant")
    ELSE prev

\* page.tsx 227-253: the three setMapMarkers calls, in order
MarkersAfterMapUpdate(data, prev) ==
    IF ~IsSome(data.data) THEN prev
    ELSE LET d == Get(data.data)
             r == IF IsSome(d.restaurants)
                  THEN PlaceMarkers(Get(d.restaurants), "restaurant") ELSE << >>
             a == IF IsSome(d.activities)
                  THEN PlaceMarkers(Get(d.activities), "activity") ELSE << >>
             h == IF IsSome(d.hotels)
                  THEN PlaceMarkers(Get(d.hotels), "hotel") ELSE << >>
         IN prev \o r \o a \o h

\* page.tsx 255-260
RouteData(data) ==
    IF IsSome(data.route) THEN Get(data.route)
    ELSE Route(IF IsSome(data.path) THEN data.path ELSE Some(<< >>),
               IF IsSome(data.waypoints) THEN data.waypoints ELSE Some(<< >>))

\* page.tsx 265: data.waypoints || routeData.waypoints
CarriesWaypoints(data) ==
    IsSome(data.waypoints) \/ IsSome(RouteData(data).waypoints)

\* page.tsx 266
WaypointsOf(data) ==
    IF IsSome(data.waypoints) THEN Get(data.waypoints)
    ELSE Get(RouteData(data).waypoints)

\* page.tsx 267-271: first and last, the last dropped when its location
\* equals the first's
StartEndWaypoints(waypoints) ==
    IF Len(waypoints) > 0
    THEN IF waypoints[Len(waypoints)].location /= waypoints[1].location
         THEN << waypoints[1], waypoints[Len(waypoints)] >>
         ELSE << waypoints[1] >>
    ELSE << >>

\* Array.prototype.join(",")
RECURSIVE Join(_)
Join(parts) ==
    IF Len(parts) = 0 THEN << >>
    ELSE IF Len(parts) = 1 THEN << parts[1] >>
    ELSE << parts[1], "," >> \o Join(Tail(parts))

\* page.tsx 274: wp.location || wp.coordinates?.join(",") || "unknown"
WaypointKey(wp) ==
    IF IsSome(wp.location) /\ Len(Get(wp.location)) > 0 THEN Get(wp.location)
    ELSE IF IsSome(wp.coordinates) /\ Len(Join(Get(wp.coordinates))) > 0
         THEN Join(Get(wp.coordinates))
    ELSE << "unknown" >>

IndexText(idx) == IF idx = 0 THEN "0" ELSE "1"

\* page.tsx 273-278
WaypointMarkers(startEnd) ==
    [k \in 1..Len(startEnd) |->
        Marker(Some(<< "waypoint-", IndexText(k - 1), "-" >> \o WaypointKey(startEnd[k])),
               startEnd[k].coordinates, "waypoint",
               Some(IF k - 1 = 0 THEN "Start" ELSE "End"))]

IsNotWaypoint(m) == m.type /= "waypoint"

\* the new waypoint markers appended to everything that was there
AppendWaypointMarkers(prev, waypointMarkers) == prev \o waypointMarkers

\* the new waypoint markers in place of the whole list
OnlyWaypointMarkers(prev, waypointMarkers) == waypointMarkers

\* page.tsx 279-282
ReplaceWaypointMarkers(prev, waypointMarkers) ==
    SelectSeq(prev, IsNotWaypoint) \o waypointMarkers

\* page.tsx 265-283
MarkersAfterRouteUpdate(data, prev) ==
    IF CarriesWaypoints(data)
    THEN ReplaceWaypointMarkers(prev, WaypointMarkers(StartEndWaypoints(WaypointsOf(data))))
    ELSE prev

\* handleMapUpdate: what it leaves in mapMarkers and mapRoute
MarkersAfter(data, prev) ==
    IF TypeIs(data, "MAP_UPDATE") THEN MarkersAfterMapUpdate(data, prev)
    ELSE IF TypeIs(data, "ROUTE_UPDATE") THEN MarkersAfterRouteUpdate(data, prev)
    ELSE prev

\* a route taken from whatever message carries one
RouteAfterUntyped(data, route) ==
    IF IsSome(data.route) \/ IsSome(data.path) THEN Some(RouteData(data)) ELSE route

RouteAfter(data, route) ==
    IF TypeIs(data, "ROUTE_UPDATE") THEN Some(RouteData(data)) ELSE route

handleMapUpdate(data) ==
    /\ Len(MarkersAfter(data, mapMarkers)) <= MaxMarkers
    /\ mapMarkers' = MarkersAfter(data, mapMarkers)
    /\ mapRoute' = RouteAfter(data, mapRoute)

----------------------------------------------------------------------------
(* Agent status and the tool-notification queue, page.tsx 131-153. *)

\* a JavaScript string in a boolean position
Truthy(o) == IsSome(o) /\ Get(o) /= ""

\* page.tsx 137
ShowsNotification(data) ==
    Truthy(data.tool_name) /\ data.state = Some("thinking")

\* prev.slice(-2)
LastTwo(prev) ==
    IF Len(prev) <= 2 THEN prev ELSE SubSeq(prev, Len(prev) - 1, Len(prev))

\* the push without the slice
PushNotificationUnbounded(prev, notification) == prev \o << notification >>

\* page.tsx 148: [...prev.slice(-2), notification]
PushNotification(prev, notification) == LastTwo(prev) \o << notification >>

\* a timer that removes whatever is at the head of the queue
DropHead(prev, id) == IF Len(prev) = 0 THEN prev ELSE Tail(prev)

\* page.tsx 151: prev.filter(n => n.id !== notification.id)
DropNotification(prev, id) ==
    LET Keeps(n) == n.id /= id IN SelectSeq(prev, Keeps)

\* page.tsx 132-152
OnAgentState(data) ==
    /\ agentState' = IF Truthy(data.state) THEN Get(data.state) ELSE "idle"
    /\ agentThinkingMessage' =
          IF Truthy(data.thinking_message) THEN data.thinking_message ELSE None
    /\ currentTool' = IF Truthy(data.tool_name) THEN data.tool_name ELSE None
    /\ IF ShowsNotification(data)
       THEN /\ nextNotificationId <= MaxNotifications
            /\ toolNotifications' =
                  PushNotification(toolNotifications,
                      [id |-> nextNotificationId, tool |-> Get(data.tool_name)])
            /\ expiryTimers' = expiryTimers \cup { nextNotificationId }
            /\ nextNotificationId' = nextNotificationId + 1
       ELSE UNCHANGED << toolNotifications, expiryTimers, nextNotificationId >>

----------------------------------------------------------------------------
(* handleCheckout, page.tsx 288-375. Each invocation suspends at four     *)
(* awaits; `checkouts` holds the await each live invocation is parked at. *)

Status(type, message) == [type |-> type, message |-> message]

NoStatus == Status(None, "")

Error(name, message) == [name |-> name, message |-> message]

\* error.message?.includes("User rejected") || error.message?.includes("rejected")
MentionsRejected(message) ==
    message \in { "User rejected the request.", "Transaction rejected" }

\* page.tsx 356-359
IsUserRejection(error) ==
    MentionsRejected(error.message) \/ error.name = "WalletSendTransactionError"

\* the error's own message, whatever it is
ErrorStatusVerbatim(error) == Status(Some("error"), error.message)

\* page.tsx 361-371
ErrorStatus(error) ==
    IF IsUserRejection(error)
    THEN Status(Some("error"), "Payment cancelled. You can try again when ready.")
    ELSE Status(Some("error"),
                IF error.message /= "" THEN error.message
                ELSE "Payment failed. Please try again.")

\* what an awaited call can throw
VendorErrors == { Error("Error", "Failed to get vendor wallet"),
                  Error("TypeError", "Failed to fetch") }
BlockhashErrors == { Error("Error", "failed to get recent blockhash") }
SendErrors == { Error("WalletSendTransactionError", "User rejected the request."),
                Error("WalletNotConnectedError", "") }
ConfirmErrors == { Error("Error", "Transaction failed to confirm") }

Ok == Error("", "ok")

\* const PAYMENT_AMOUNT_SOL = 0.5, as a fraction
PAYMENT_AMOUNT_SOL == [numerator |-> 1, denominator |-> 2]

\* @solana/web3.js
LAMPORTS_PER_SOL == 1000000000

\* an amount that follows the itinerary's total
lamportsOfTotal == totalCost(itinerary) * 1000000

\* page.tsx 309: PAYMENT_AMOUNT_SOL * LAMPORTS_PER_SOL
lamports ==
    (PAYMENT_AMOUNT_SOL.numerator * LAMPORTS_PER_SOL) \div PAYMENT_AMOUNT_SOL.denominator

\* SystemProgram.transfer({ fromPubkey, toPubkey, lamports }) as the wallet
\* receives it; shownTotal is the panel's total at that moment
Transfer(amount, shownTotal) == [lamports |-> amount, shownTotal |-> shownTotal]

\* page.tsx 289: !walletConnected || !publicKey || !sendTransaction
CanPay == walletConnected

Parked(stage) == BagIn(stage, checkouts)

Park(stage) == checkouts (+) SetToBag({ stage })

Resume(stage) == checkouts (-) SetToBag({ stage })

\* page.tsx 352-374: the catch block, then finally
CheckoutFails(stage, error) ==
    /\ paymentStatus' = ErrorStatus(error)
    /\ isProcessingPayment' = FALSE
    /\ checkouts' = Resume(stage)
    /\ UNCHANGED << walletConnected, showWalletOverlay, dismissTimers, transfers >>

\* a step that ends at the next await
CheckoutProceeds(stage, next, message, sent) ==
    /\ paymentStatus' = Status(Some("pending"), message)
    /\ checkouts' = Resume(stage) (+) SetToBag({ next })
    /\ transfers' = transfers \cup sent
    /\ UNCHANGED << walletConnected, showWalletOverlay, isProcessingPayment,
                    dismissTimers >>

\* a checkout that starts whether or not a wallet is connected
handleCheckoutUnguarded ==
    /\ BagCardinality(checkouts) < MaxCheckouts
    /\ isProcessingPayment' = TRUE
    /\ paymentStatus' = Status(Some("pending"), "Preparing transaction...")
    /\ checkouts' = Park("vendor")
    /\ UNCHANGED << walletConnected, showWalletOverlay, dismissTimers, transfers >>

\* page.tsx 289-301: from the call to the first await
handleCheckout ==
    IF ~CanPay
    THEN /\ showWalletOverlay' = TRUE
         /\ UNCHANGED << walletConnected, isProcessingPayment, paymentStatus,
                         checkouts, dismissTimers, transfers >>
    ELSE /\ BagCardinality(checkouts) < MaxCheckouts
         /\ isProcessingPayment' = TRUE
         /\ paymentStatus' = Status(Some("pending"), "Preparing transaction...")
         /\ checkouts' = Park("vendor")
         /\ UNCHANGED << walletConnected, showWalletOverlay, dismissTimers, transfers >>

----------------------------------------------------------------------------
(* The handlers. *)

Event(op, data) == [op |-> op, data |-> data]

\* the `room` the effect's cleanup closes over: the effect has deps [] and
\* runs once, in the first render, where room is null (page.tsx 41, 217-222)
roomOfFirstRender == None

\* page.tsx 217-221: the cleanup of the mount effect
Cleanup ==
    /\ roomState' = IF IsSome(roomOfFirstRender) /\ roomState = "connected"
                    THEN "disconnected"
                    ELSE roomState
    /\ UNCHANGED << connectToRoom, room, isConnected >>

\* A state updater, a render or an effect throws: setItinerary's updater reads
\* newItem.id of an undefined newItem (page.tsx 157-163), or, the itinerary
\* having been empty, the undefined entry it appended is read by the panel
\* (itinerary-panel.tsx 541) or by the route effect (page.tsx 416). No
\* component of the page catches the error: React unmounts the page, and
\* the page's state goes with it.
RenderThrows ==
    /\ mounted' = FALSE
    /\ Cleanup

\* JSON.parse throws on the payload and the catch swallows it, page.tsx
\* 127-128 and 188-190
ParseFails ==
    /\ UNCHANGED tokenVars
    /\ lastEvent' = Event("ParseFails", None)
    /\ UNCHANGED << itineraryVars, mapMarkers, agentVars, paymentVars, roomVars,
                    researchVars >>

\* RoomEvent.DataReceived listener, page.tsx 125-192
DataReceived(data) ==
    /\ UNCHANGED researchVars
    /\ IF TypeIs(data, "ITINERARY_ADD") /\ ~IsSome(data.item)
       THEN RenderThrows
       ELSE UNCHANGED roomVars
    /\ UNCHANGED tokenVars
    /\ lastEvent' = Event("DataReceived", data)
    /\ IF TypeIs(data, "AGENT_STATE")
       THEN /\ OnAgentState(data)
            /\ UNCHANGED << itineraryVars, mapMarkers, paymentVars >>
       ELSE IF TypeIs(data, "ITINERARY_ADD") /\ ~IsSome(data.item)
       THEN UNCHANGED << itineraryVars, mapMarkers, agentVars, paymentVars >>
       ELSE IF TypeIs(data, "ITINERARY_ADD")
       THEN /\ LET added == ItineraryAdded(itinerary, flyToTarget, Get(data.item))
               IN CommitItinerary(added.itinerary, added.itinerary /= itinerary,
                                  added.flyToTarget)
            /\ UNCHANGED << mapMarkers, agentVars, paymentVars >>
       ELSE IF TypeIs(data, "ITINERARY_REMOVE")
       THEN /\ CommitItinerary(RemoveByName(itinerary, data.item_name), TRUE, flyToTarget)
            /\ UNCHANGED << mapMarkers, agentVars, paymentVars >>
       ELSE IF TypeIs(data, "ITINERARY_CLEAR")
       THEN /\ CommitItinerary(<< >>, TRUE, flyToTarget)
            /\ UNCHANGED << mapMarkers, agentVars, paymentVars >>
       ELSE IF TypeIs(data, "PAYMENT_EXECUTE")
       THEN /\ handleCheckout
            /\ UNCHANGED << itineraryVars, mapMarkers, agentVars >>
       ELSE /\ handleMapUpdate(data)
            /\ UNCHANGED << itinerary, flyToTarget, routeRequests, agentVars, paymentVars >>

\* page.tsx 383-400, called from the map popup's button (mapbox-map.tsx 1847)
handleAddToItinerary(item) ==
    /\ UNCHANGED << roomVars, researchVars >>
    /\ UNCHANGED tokenVars
    /\ lastEvent' = Event("handleAddToItinerary", item)
    /\ LET added == AddedToItinerary(itinerary, flyToTarget, item)
       IN CommitItinerary(added.itinerary, added.itinerary /= itinerary,
                          added.flyToTarget)
    /\ UNCHANGED << mapMarkers, agentVars, paymentVars >>

\* page.tsx 402-404, called from a listed item's remove button
handleRemoveFromItinerary(itemId) ==
    /\ UNCHANGED << roomVars, researchVars >>
    /\ UNCHANGED tokenVars
    /\ lastEvent' = Event("handleRemoveFromItinerary", itemId)
    /\ CommitItinerary(RemoveById(itinerary, itemId), TRUE, flyToTarget)
    /\ UNCHANGED << mapMarkers, agentVars, paymentVars >>

\* page.tsx 406-408; the panel with its Clear All button is rendered only
\* for a non-empty itinerary (itinerary-panel.tsx 552-554)
handleClearItinerary ==
    /\ Len(itinerary) > 0
    /\ UNCHANGED << roomVars, researchVars >>
    /\ UNCHANGED tokenVars
    /\ lastEvent' = Event("handleClearItinerary", None)
    /\ CommitItinerary(<< >>, TRUE, flyToTarget)
    /\ UNCHANGED << mapMarkers, agentVars, paymentVars >>

\* handleDragEnd (itinerary-panel.tsx 465-474) calling handleReorderItinerary
\* (page.tsx 410-412)
handleDragEnd(oldIndex, newIndex) ==
    /\ oldIndex /= newIndex
    /\ UNCHANGED << roomVars, researchVars >>
    /\ UNCHANGED tokenVars
    /\ lastEvent' = Event("handleDragEnd", << oldIndex, newIndex >>)
    /\ CommitItinerary(ArrayMove(itinerary, oldIndex, newIndex), TRUE, flyToTarget)
    /\ UNCHANGED << mapMarkers, agentVars, paymentVars >>

\* calculateItineraryRoute() resuming after its fetch, page.tsx 440-474
RouteResponse(itemsWithCoords, response) ==
    /\ BagIn(itemsWithCoords, routeRequests)
    /\ UNCHANGED << roomVars, researchVars >>
    /\ UNCHANGED tokenVars
    /\ lastEvent' = Event("RouteResponse", [items |-> itemsWithCoords, response |-> response])
    /\ routeRequests' = routeRequests (-) SetToBag({ itemsWithCoords })
    /\ mapRoute' = RouteAfterResponse(itemsWithCoords, response, mapRoute)
    /\ UNCHANGED << itinerary, flyToTarget, mapMarkers, agentVars, paymentVars >>

\* the setTimeout callback of page.tsx 150-152; timers of one delay fire in
\* the order they were set
NotificationExpires(id) ==
    /\ id \in expiryTimers
    /\ \A other \in expiryTimers : id <= other
    /\ UNCHANGED << roomVars, researchVars >>
    /\ UNCHANGED tokenVars
    /\ lastEvent' = Event("NotificationExpires", [id |-> id])
    /\ toolNotifications' = DropNotification(toolNotifications, id)
    /\ expiryTimers' = expiryTimers \ { id }
    /\ UNCHANGED << agentState, agentThinkingMessage, currentTool, nextNotificationId,
                    itineraryVars, mapMarkers, paymentVars >>

\* the Checkout button of the panel (part_001 328-330): rendered for a
\* non-empty itinerary, disabled when !connected || isProcessingPayment
CheckoutClick ==
    /\ Len(itinerary) > 0
    /\ walletConnected /\ ~isProcessingPayment
    /\ UNCHANGED << roomVars, researchVars >>
    /\ UNCHANGED tokenVars
    /\ lastEvent' = Event("CheckoutClick", None)
    /\ handleCheckout
    /\ UNCHANGED << itineraryVars, mapMarkers, agentVars >>

\* page.tsx 301-312: the vendor lookup answers
VendorFetched(result) ==
    /\ Parked("vendor")
    /\ UNCHANGED << roomVars, researchVars >>
    /\ UNCHANGED tokenVars
    /\ lastEvent' = Event("VendorFetched", result)
    /\ IF result = Ok
       THEN CheckoutProceeds("vendor", "blockhash", "Building transaction...", { })
       ELSE CheckoutFails("vendor", result)
    /\ UNCHANGED << itineraryVars, mapMarkers, agentVars >>

\* page.tsx 322-329: getLatestBlockhash answers, sendTransaction is called
BlockhashFetched(result) ==
    /\ Parked("blockhash")
    /\ UNCHANGED << roomVars, researchVars >>
    /\ UNCHANGED tokenVars
    /\ lastEvent' = Event("BlockhashFetched", result)
    /\ IF result = Ok
       THEN CheckoutProceeds("blockhash", "send", "Confirm in your wallet...",
                             { Transfer(lamports, totalCost(itinerary)) })
       ELSE CheckoutFails("blockhash", result)
    /\ UNCHANGED << itineraryVars, mapMarkers, agentVars >>

\* page.tsx 329-334: sendTransaction answers
TransactionSent(result) ==
    /\ Parked("send")
    /\ UNCHANGED << roomVars, researchVars >>
    /\ UNCHANGED tokenVars
    /\ lastEvent' = Event("TransactionSent", result)
    /\ IF result = Ok
       THEN CheckoutProceeds("send", "confirm", "Confirming transaction...", { })
       ELSE CheckoutFails("send", result)
    /\ UNCHANGED << itineraryVars, mapMarkers, agentVars >>

\* page.tsx 334-350 and 372-374: confirmTransaction answers
TransactionConfirmed(result) ==
    /\ Parked("confirm")
    /\ UNCHANGED << roomVars, researchVars >>
    /\ UNCHANGED tokenVars
    /\ lastEvent' = Event("TransactionConfirmed", result)
    /\ IF result = Ok
       THEN /\ dismissTimers < MaxDismissTimers
            /\ paymentStatus' = Status(Some("success"), "Payment of 0.5 SOL successful!")
            /\ dismissTimers' = dismissTimers + 1
            /\ isProcessingPayment' = FALSE
            /\ checkouts' = Resume("confirm")
            /\ UNCHANGED << walletConnected, showWalletOverlay, transfers >>
       ELSE CheckoutFails("confirm", result)
    /\ UNCHANGED << itineraryVars, mapMarkers, agentVars >>

\* the setTimeout callback of page.tsx 348-350
DismissTimerFires ==
    /\ dismissTimers > 0
    /\ UNCHANGED << roomVars, researchVars >>
    /\ UNCHANGED tokenVars
    /\ lastEvent' = Event("DismissTimerFires", None)
    /\ dismissTimers' = dismissTimers - 1
    /\ paymentStatus' = NoStatus
    /\ UNCHANGED << walletConnected, showWalletOverlay, isProcessingPayment, checkouts,
                    transfers, itineraryVars, mapMarkers, agentVars >>

\* the toast's close button, page.tsx 511 and 542-543
DismissClick ==
    /\ IsSome(paymentStatus.type)
    /\ UNCHANGED << roomVars, researchVars >>
    /\ UNCHANGED tokenVars
    /\ lastEvent' = Event("DismissClick", None)
    /\ paymentStatus' = NoStatus
    /\ UNCHANGED << walletConnected, showWalletOverlay, isProcessingPayment, checkouts,
                    dismissTimers, transfers, itineraryVars, mapMarkers, agentVars >>

\* useWallet(): the wallet adapter connects or disconnects (page.tsx 57)
WalletChanges ==
    /\ UNCHANGED << roomVars, researchVars >>
    /\ UNCHANGED tokenVars
    /\ lastEvent' = Event("WalletChanges", None)
    /\ walletConnected' = ~walletConnected
    /\ UNCHANGED << showWalletOverlay, isProcessingPayment, paymentStatus, checkouts,
                    dismissTimers, transfers, itineraryVars, mapMarkers, agentVars >>

\* WalletConnectOverlay's onClose, page.tsx 505-508
CloseWalletOverlay ==
    /\ showWalletOverlay /\ ~walletConnected
    /\ UNCHANGED << roomVars, researchVars >>
    /\ UNCHANGED tokenVars
    /\ lastEvent' = Event("CloseWalletOverlay", None)
    /\ showWalletOverlay' = FALSE
    /\ UNCHANGED << walletConnected, isProcessingPayment, paymentStatus, checkouts,
                    dismissTimers, transfers, itineraryVars, mapMarkers, agentVars >>

----------------------------------------------------------------------------
(* The research route (api/research-itinerary/route.ts): POST answers with *)
(* a stream of newline-separated JSON records, one loop iteration per item. *)
(* The texts of a research result are left out; a result is identified by   *)
(* the item it belongs to.                                                  *)

KnownTypes == { "restaurant", "hotel", "activity" }

\* route.ts 89-100
ResearchResult(item) ==
    [itemId |-> item.id, itemName |-> item.name, itemType |-> item.type]

\* route.ts 29-101: typeSpecificInfo[item.type] is undefined for any other
\* type, and reading info.gettingThere then throws (None)
getResearchForItem(item) ==
    IF item.type \in KnownTypes THEN Some(ResearchResult(item)) ELSE None

\* the state of start(controller): the request's items, the index of the item
\* in work (from 1), results, the records enqueued so far, controller.close()
Stream(items, i, results, emitted, closed) ==
    [items |-> items, i |-> i, results |-> results, emitted |-> emitted,
     closed |-> closed]

\* a counter that starts at 0
ProgressRecordZeroBased(items, i) ==
    [type |-> "progress", current |-> i - 1, total |-> Len(items),
     itemName |-> items[i].name]

\* route.ts 126-134
ProgressRecord(items, i) ==
    [type |-> "progress", current |-> i, total |-> Len(items),
     itemName |-> items[i].name]

\* route.ts 141-149
ItemCompleteRecord(items, i, research) ==
    [type |-> "item_complete", current |-> i, total |-> Len(items),
     itemName |-> items[i].name, research |-> research]

\* route.ts 152-160
ItemErrorRecord(items, i) ==
    [type |-> "item_error", current |-> i, total |-> Len(items),
     itemName |-> items[i].name, error |-> "Failed to research this item"]

\* route.ts 165-171
CompleteRecord(results, totalItems) ==
    [type |-> "complete", results |-> results, totalItems |-> totalItems]

\* route.ts 107-112 and 184-189: the body of an error response
ErrorBody == [error |-> "Failed to research itinerary"]

\* route.ts 122-134 and 164-173: the top of the loop, up to the await, or the
\* end of the loop
LoopHead(s) ==
    IF s.i <= Len(s.items)
    THEN [s EXCEPT !.emitted = Append(@, ProgressRecord(s.items, s.i))]
    ELSE [s EXCEPT !.emitted = Append(@, CompleteRecord(s.results, Len(s.items))),
                   !.closed = TRUE]

\* a loop that gives up at the first item that fails
LoopBodyAbandoning(s) ==
    LET research == getResearchForItem(s.items[s.i]) IN
    IF IsSome(research)
    THEN [s EXCEPT !.results = Append(@, Get(research)),
                   !.emitted = Append(@, ItemCompleteRecord(s.items, s.i, Get(research))),
                   !.i = @ + 1]
    ELSE [s EXCEPT !.emitted = Append(@, ItemErrorRecord(s.items, s.i)),
                   !.i = Len(s.items) + 1]

\* route.ts 136-162: from the await to the end of the iteration
LoopBody(s) ==
    LET research == getResearchForItem(s.items[s.i]) IN
    IF IsSome(research)
    THEN [s EXCEPT !.results = Append(@, Get(research)),
                   !.emitted = Append(@, ItemCompleteRecord(s.items, s.i, Get(research))),
                   !.i = @ + 1]
    ELSE [s EXCEPT !.emitted = Append(@, ItemErrorRecord(s.items, s.i)),
                   !.i = @ + 1]

StreamOpen == IsSome(stream) /\ ~Get(stream).closed

----------------------------------------------------------------------------
(* startResearch of the itinerary panel (itinerary-panel.tsx 476-528) and  *)
(* the research modal.                                                      *)

\* data.type of a parsed record
TypeOf(data) == IF "type" \in DOMAIN data THEN data.type ELSE "undefined"

\* Math.round(x) of a non-negative x = n / d
Round(n, d) == (2 * n + d) \div (2 * d)

Run(at, items) == [at |-> at, items |-> items]

NoRun == Run("idle", << >>)

\* the catch block, itinerary-panel.tsx 524-527
ResearchThrew ==
    /\ isResearchComplete' = TRUE
    /\ startResearch' = NoRun
    /\ UNCHANGED << showResearchModal, researchProgress, currentResearchItem,
                    researchResults, consumed, stream >>

\* the "Save to PDF" button: rendered with the panel, under the modal's
\* backdrop while the modal is open; itinerary-panel.tsx 476-488
StartResearchClick ==
    /\ Len(itinerary) > 0
    /\ ~showResearchModal
    /\ startResearch.at = "idle"
    /\ UNCHANGED tokenVars
    /\ lastEvent' = Event("StartResearchClick", None)
    /\ showResearchModal' = TRUE
    /\ researchProgress' = 0
    /\ researchResults' = << >>
    /\ isResearchComplete' = FALSE
    /\ currentResearchItem' = itinerary[1].name
    /\ startResearch' = Run("fetch", itinerary)
    /\ UNCHANGED << consumed, stream >>
    /\ UNCHANGED << itineraryVars, mapMarkers, agentVars, paymentVars, roomVars >>

\* route.ts 103-183 up to the first await of start(): the route takes up the
\* request once its previous stream has ended
POST ==
    /\ startResearch.at = "fetch"
    /\ ~StreamOpen
    /\ UNCHANGED tokenVars
    /\ lastEvent' = Event("POST", None)
    /\ stream' = Some(IF Len(startResearch.items) = 0
                      THEN Stream(<< >>, 1, << >>, << ErrorBody >>, TRUE)
                      ELSE LoopHead(Stream(startResearch.items, 1, << >>, << >>, FALSE)))
    /\ startResearch' = Run("read", startResearch.items)
    /\ consumed' = 0
    /\ UNCHANGED << showResearchModal, researchProgress, currentResearchItem,
                    researchResults, isResearchComplete >>
    /\ UNCHANGED << itineraryVars, mapMarkers, agentVars, paymentVars, roomVars >>

\* fetch resolves with a response that is no research stream: the JSON error
\* body of route.ts 184-189, or that of whatever answers in the route's place
ErrorResponse ==
    /\ startResearch.at = "fetch"
    /\ ~StreamOpen
    /\ UNCHANGED tokenVars
    /\ lastEvent' = Event("ErrorResponse", None)
    /\ stream' = Some(Stream(<< >>, 1, << >>, << ErrorBody >>, TRUE))
    /\ startResearch' = Run("read", startResearch.items)
    /\ consumed' = 0
    /\ UNCHANGED << showResearchModal, researchProgress, currentResearchItem,
                    researchResults, isResearchComplete >>
    /\ UNCHANGED << itineraryVars, mapMarkers, agentVars, paymentVars, roomVars >>

\* fetch rejects
FetchRejects ==
    /\ startResearch.at = "fetch"
    /\ UNCHANGED tokenVars
    /\ lastEvent' = Event("FetchRejects", None)
    /\ ResearchThrew
    /\ UNCHANGED << itineraryVars, mapMarkers, agentVars, paymentVars, roomVars >>

\* start() runs from one await to the next (route.ts 136-173)
Iteration ==
    /\ StreamOpen
    /\ stream' = Some(LoopHead(LoopBody(Get(stream))))

\* the promise of getResearchForItem settles (route.ts 31)
ResearchSettles ==
    /\ Iteration
    /\ UNCHANGED tokenVars
    /\ lastEvent' = Event("ResearchSettles", None)
    /\ UNCHANGED << showResearchModal, researchProgress, currentResearchItem,
                    researchResults, isResearchComplete, startResearch, consumed >>
    /\ UNCHANGED << itineraryVars, mapMarkers, agentVars, paymentVars, roomVars >>

\* itinerary-panel.tsx 504-518: one parsed record
ApplyRecord(data) ==
    IF TypeOf(data) = "progress"
    THEN /\ researchProgress' = Round(data.current * 100, data.total)
         /\ currentResearchItem' = data.itemName
         /\ UNCHANGED << researchResults, isResearchComplete >>
    ELSE IF TypeOf(data) = "item_complete"
    THEN /\ researchResults' = Append(researchResults, data.research)
         /\ researchProgress' = Round(data.current * 100, data.total)
         /\ UNCHANGED << currentResearchItem, isResearchComplete >>
    ELSE IF TypeOf(data) = "complete"
    THEN /\ isResearchComplete' = TRUE
         /\ researchProgress' = 100
         /\ currentResearchItem' = << >>
         /\ UNCHANGED researchResults
    ELSE UNCHANGED << researchProgress, currentResearchItem, researchResults,
                      isResearchComplete >>

\* reader.read() yields the next record (itinerary-panel.tsx 494-522); the
\* chunk holds the whole line, or the line arrives cut in two chunks and
\* JSON.parse fails on both parts
ReadChunk(intact) ==
    /\ startResearch.at = "read"
    /\ consumed < Len(Get(stream).emitted)
    /\ UNCHANGED tokenVars
    /\ lastEvent' = Event("ReadChunk", [record |-> Get(stream).emitted[consumed + 1],
                                        intact |-> intact])
    /\ consumed' = consumed + 1
    /\ IF intact
       THEN ApplyRecord(Get(stream).emitted[consumed + 1])
       ELSE UNCHANGED << researchProgress, currentResearchItem, researchResults,
                         isResearchComplete >>
    /\ UNCHANGED << showResearchModal, startResearch, stream >>
    /\ UNCHANGED << itineraryVars, mapMarkers, agentVars, paymentVars, roomVars >>

\* reader.read() rejects: the connection is lost
ReadThrows ==
    /\ startResearch.at = "read"
    /\ UNCHANGED tokenVars
    /\ lastEvent' = Event("ReadThrows", None)
    /\ ResearchThrew
    /\ UNCHANGED << itineraryVars, mapMarkers, agentVars, paymentVars, roomVars >>

\* reader.read() yields done: startResearch() returns (itinerary-panel.tsx 496)
ReadDone ==
    /\ startResearch.at = "read"
    /\ Get(stream).closed
    /\ consumed = Len(Get(stream).emitted)
    /\ UNCHANGED tokenVars
    /\ lastEvent' = Event("ReadDone", None)
    /\ startResearch' = NoRun
    /\ UNCHANGED << showResearchModal, researchProgress, currentResearchItem,
                    researchResults, isResearchComplete, consumed, stream >>
    /\ UNCHANGED << itineraryVars, mapMarkers, agentVars, paymentVars, roomVars >>

\* itinerary-panel.tsx 534-539; the modal offers it only when isComplete
\* (140, 172-175)
closeModal ==
    /\ Len(itinerary) > 0
    /\ showResearchModal /\ isResearchComplete
    /\ UNCHANGED tokenVars
    /\ lastEvent' = Event("closeModal", None)
    /\ showResearchModal' = FALSE
    /\ researchProgress' = 0
    /\ researchResults' = << >>
    /\ isResearchComplete' = FALSE
    /\ UNCHANGED << currentResearchItem, startResearch, consumed, stream >>
    /\ UNCHANGED << itineraryVars, mapMarkers, agentVars, paymentVars, roomVars >>

----------------------------------------------------------------------------
(* The room connection: the mount effect of page.tsx 86-222 and the Leave  *)
(* button of video-conference.tsx.                                          *)

\* connectToRoom() gives up: the catch block, page.tsx 210-212
ConnectFails ==
    /\ connectToRoom' = "returned"
    /\ UNCHANGED << mounted, roomState, room, isConnected >>

\* page.tsx 104-125: the token request answers, the Room is created
TokenFetched(ok) ==
    /\ connectToRoom = "token"
    /\ UNCHANGED tokenVars
    /\ lastEvent' = Event("TokenFetched", None)
    /\ IF ok
       THEN /\ connectToRoom' = "connect"
            /\ UNCHANGED << mounted, roomState, room, isConnected >>
       ELSE ConnectFails
    /\ UNCHANGED << itineraryVars, mapMarkers, agentVars, paymentVars, researchVars >>

\* page.tsx 194: newRoom.connect(url, token) settles
RoomConnects(ok) ==
    /\ connectToRoom = "connect"
    /\ UNCHANGED tokenVars
    /\ lastEvent' = Event("RoomConnects", None)
    /\ IF ok
       THEN /\ connectToRoom' = "media"
            /\ roomState' = "connected"
            /\ UNCHANGED << mounted, room, isConnected >>
       ELSE ConnectFails
    /\ UNCHANGED << itineraryVars, mapMarkers, agentVars, paymentVars, researchVars >>

\* page.tsx 196-209: camera and microphone are tried, then setRoom(newRoom)
\* and setIsConnected(true); a state update after the unmount is dropped
MediaEnabled ==
    /\ connectToRoom = "media"
    /\ UNCHANGED tokenVars
    /\ lastEvent' = Event("MediaEnabled", None)
    /\ connectToRoom' = "returned"
    /\ room' = IF mounted THEN Some("newRoom") ELSE room
    /\ isConnected' = (IF mounted THEN TRUE ELSE isConnected)
    /\ UNCHANGED << mounted, roomState >>
    /\ UNCHANGED << itineraryVars, mapMarkers, agentVars, paymentVars, researchVars >>

\* the Leave button, video-conference.tsx 234-239, rendered when room is set
\* (page.tsx 592)
LeaveClick ==
    /\ mounted /\ isConnected /\ IsSome(room)
    /\ roomState = "connected"
    /\ UNCHANGED tokenVars
    /\ lastEvent' = Event("LeaveClick", None)
    /\ roomState' = "disconnected"
    /\ UNCHANGED << mounted, connectToRoom, room, isConnected >>
    /\ UNCHANGED << itineraryVars, mapMarkers, agentVars, paymentVars, researchVars >>

\* the page is left by a client-side navigation: the effect's cleanup runs,
\* page.tsx 217-221
Unmount ==
    /\ mounted
    /\ UNCHANGED tokenVars
    /\ lastEvent' = Event("Unmount", None)
    /\ mounted' = FALSE
    /\ Cleanup
    /\ UNCHANGED << itineraryVars, mapMarkers, agentVars, paymentVars, researchVars >>

\* a data packet reaches the listener of a connected room whose page is
\* still mounted
Delivered(data) ==
    /\ mounted
    /\ roomState = "connected"
    /\ DataReceived(data)

----------------------------------------------------------------------------
(* The token route, part_007: POST /api/livekit-token checks the room for  *)
(* an agent and dispatches one. Each request runs from one await to the    *)
(* next; the room and its dispatches are LiveKit's state.                  *)

Participant(identity, name) == [identity |-> identity, name |-> name]

\* the participant an agent worker joins as, once a dispatch reaches it
AgentParticipant(k) ==
    Participant(Some(<< "a", "g", "e", "n", "t", "-",
                        CASE k = 1 -> "1" [] k = 2 -> "2" [] k = 3 -> "3" [] OTHER -> "4" >>),
                None)

\* part_007 25-28: identity and name are participantName || "user"
UserParticipant == Participant(Some(<< "u", "s", "e", "r" >>), Some(<< "U", "s", "e", "r" >>))

\* part_007 46-50
LooksLikeAgent(p) ==
    \/ IsSome(p.identity)
       /\ Includes(ToLowerCase(Get(p.identity)), << "a", "g", "e", "n", "t" >>)
    \/ IsSome(p.name)
       /\ Includes(ToLowerCase(Get(p.name)), << "a", "g", "e", "n", "t" >>)
    \/ IsSome(p.name)
       /\ Includes(ToLowerCase(Get(p.name)), << "n", "o", "m", "a", "d" >>)

\* part_007 46: participants.some(...)
HasAgent(participants) == \E p \in participants : LooksLikeAgent(p)

TokenRequest(at, hasAgent) == [at |-> at, hasAgent |-> hasAgent]

NoRequest == TokenRequest("idle", FALSE)

IsAgent(p) == \E k \in 1..MaxTokenRequests : p = AgentParticipant(k)

\* part_007 6-45: a request arrives, the token is signed and listParticipants
\* is called
TokenRequested(r) ==
    /\ tokenRequests[r].at = "idle"
    /\ lastEvent' = Event("TokenRequested", None)
    /\ tokenRequests' = [tokenRequests EXCEPT ![r] = TokenRequest("listParticipants", FALSE)]
    /\ UNCHANGED << roomParticipants, dispatches >>
    /\ UNCHANGED << itineraryVars, mapMarkers, agentVars, paymentVars, roomVars,
                    researchVars >>

\* part_007 45-62 and 73-77: listParticipants settles; without an agent in
\* its answer, or when it throws, createDispatch is called, else the token is
\* returned
ParticipantsListed(r, threw) ==
    /\ tokenRequests[r].at = "listParticipants"
    /\ lastEvent' = Event("ParticipantsListed", None)
    /\ LET hasAgent == IF threw THEN FALSE ELSE HasAgent(roomParticipants)
       IN tokenRequests' =
             [tokenRequests EXCEPT
                 ![r] = TokenRequest(IF ~hasAgent THEN "createDispatch" ELSE "returned",
                                     hasAgent)]
    /\ UNCHANGED << roomParticipants, dispatches >>
    /\ UNCHANGED << itineraryVars, mapMarkers, agentVars, paymentVars, roomVars,
                    researchVars >>

\* part_007 62-81: createDispatch settles, with a dispatch created or with an
\* error that is logged; the token is returned
DispatchSettled(r, created) ==
    /\ tokenRequests[r].at = "createDispatch"
    /\ lastEvent' = Event("DispatchSettled", None)
    /\ dispatches' = IF created THEN dispatches + 1 ELSE dispatches
    /\ tokenRequests' = [tokenRequests EXCEPT ![r].at = "returned"]
    /\ UNCHANGED roomParticipants
    /\ UNCHANGED << itineraryVars, mapMarkers, agentVars, paymentVars, roomVars,
                    researchVars >>

\* LiveKit: the agent of a dispatch joins the room
AgentJoins ==
    /\ Cardinality({ p \in roomParticipants : IsAgent(p) }) < dispatches
    /\ lastEvent' = Event("AgentJoins", None)
    /\ roomParticipants' =
          roomParticipants
              \cup { AgentParticipant(Cardinality({ p \in roomParticipants : IsAgent(p) }) + 1) }
    /\ UNCHANGED << tokenRequests, dispatches >>
    /\ UNCHANGED << itineraryVars, mapMarkers, agentVars, paymentVars, roomVars,
                    researchVars >>

\* the client that was given a token connects to the room (page.tsx 194)
UserJoins ==
    /\ \E r \in 1..MaxTokenRequests : tokenRequests[r].at = "returned"
    /\ lastEvent' = Event("UserJoins", None)
    /\ roomParticipants' = roomParticipants \cup { UserParticipant }
    /\ UNCHANGED << tokenRequests, dispatches >>
    /\ UNCHANGED << itineraryVars, mapMarkers, agentVars, paymentVars, roomVars,
                    researchVars >>

----------------------------------------------------------------------------
(* The state after the first render, page.tsx 41-68. *)

Init ==
    /\ itinerary = << >>
    /\ mapRoute = None
    /\ mapMarkers = << >>
    /\ flyToTarget = None
    /\ routeRequests = EmptyBag
    /\ agentState = "idle"
    /\ agentThinkingMessage = None
    /\ currentTool = None
    /\ toolNotifications = << >>
    /\ expiryTimers = { }
    /\ nextNotificationId = 1
    /\ walletConnected = FALSE
    /\ showWalletOverlay = TRUE
    /\ isProcessingPayment = FALSE
    /\ paymentStatus = NoStatus
    /\ checkouts = EmptyBag
    /\ dismissTimers = 0
    /\ transfers = { }
    /\ mounted = TRUE
    /\ connectToRoom = "token"
    /\ roomState = "new"
    /\ room = None
    /\ isConnected = FALSE
    /\ showResearchModal = FALSE
    /\ researchProgress = 0
    /\ currentResearchItem = << >>
    /\ researchResults = << >>
    /\ isResearchComplete = FALSE
    /\ startResearch = NoRun
    /\ consumed = 0
    /\ stream = None
    /\ tokenRequests = [r \in 1..MaxTokenRequests |-> NoRequest]
    /\ roomParticipants = { }
    /\ dispatches = 0
    /\ lastEvent = Event("render", None)

----------------------------------------------------------------------------
(* Itinerary and route: the events that reach the itinerary and the route. *)

RemoveNames == { << >>, << "A", "B" >>, << "b", "A" >>, << "x" >> }

PushedRoute ==
    Route(Some(<< << "34.0", "-118.2" >>, << "34.05", "-118.25" >> >>), None)

ItineraryMessages ==
    { ItineraryAddMessage(item) : item \in Items }
    \cup { ItineraryRemoveMessage(Some(name)) : name \in RemoveNames }
    \cup { ItineraryRemoveMessage(None), ItineraryClearMessage,
           RouteUpdateMessage(Some(PushedRoute), None, None) }

Next ==
    \/ \E data \in ItineraryMessages : DataReceived(data)
    \/ \E item \in Items : handleAddToItinerary(item)
    \/ \E k \in 1..Len(itinerary) : handleRemoveFromItinerary(itinerary[k].id)
    \/ handleClearItinerary
    \/ \E oldIndex, newIndex \in 1..Len(itinerary) : handleDragEnd(oldIndex, newIndex)
    \/ \E itemsWithCoords \in BagToSet(routeRequests), response \in Responses :
          RouteResponse(itemsWithCoords, response)

Spec == Init /\ [][Next]_vars

----------------------------------------------------------------------------
(* Properties of the itinerary and the route. *)

IsReceived(event, type) == event.op = "DataReceived" /\ TypeIs(event.data, type)

\* the route is the one the effect derived from the itinerary `items`
IsRouteOf(route, items) ==
    /\ IsSome(route)
    /\ Len(ItemsWithCoords(items)) >= 2
    /\ Get(route).waypoints =
          Some([k \in 1..Len(ItemsWithCoords(items)) |->
                   [location |-> Some(ItemsWithCoords(items)[k].name),
                    coordinates |-> ItemsWithCoords(items)[k].coordinates]])

\* C2: in every reachable state no two itinerary items share an id.
C2_UniqueIds ==
    \A j, k \in 1..Len(itinerary) : j /= k => itinerary[j].id /= itinerary[k].id

\* C2 witness: an add of an id already present (with other content) was
\* processed while the itinerary held two items.
C2_DuplicateAddProcessed ==
    /\ IsReceived(lastEvent, "ITINERARY_ADD")
    /\ lastEvent.data.item = Some(ItemR1b)
    /\ itinerary = << ItemR1, ItemH1 >>

\* C3 (as claimed): once ITINERARY_CLEAR is processed the itinerary is empty
\* and the route is cleared, and a route computation that completes next
\* leaves it so.
C3_ClearLeavesNoRoute ==
    /\ [](IsReceived(lastEvent, "ITINERARY_CLEAR")
            => itinerary = << >> /\ mapRoute = None)
    /\ [][(IsReceived(lastEvent, "ITINERARY_CLEAR") /\ lastEvent'.op = "RouteResponse")
            => (itinerary' = << >> /\ mapRoute' = None)]_vars

\* a routing request that failed: it threw, answered non-OK, or answered
\* without a path or with an empty one
RequestFailed(response) ==
    \/ response.throws
    \/ ~response.ok
    \/ ~IsSome(response.path)
    \/ Len(Get(response.path)) = 0

\* the last event is the answer to the request made for the itinerary as it is now
AnsweredCurrentItinerary ==
    /\ lastEvent.op = "RouteResponse"
    /\ lastEvent.data.items = ItemsWithCoords(itinerary)
    /\ Len(ItemsWithCoords(itinerary)) >= 2

\* C4 (as claimed): after a failed routing request for an itinerary with at
\* least 2 coordinate-bearing items the active route is the fallback path
\* through the items' coordinates in itinerary order.
C4_FailureYieldsFallback ==
    (AnsweredCurrentItinerary /\ RequestFailed(lastEvent.data.response))
        => /\ IsSome(mapRoute)
           /\ IsSome(Get(mapRoute).path)
           /\ Get(Get(mapRoute).path) =
                 [k \in 1..Len(ItemsWithCoords(itinerary)) |->
                     Get(ItemsWithCoords(itinerary)[k].coordinates)]

\* C5 (as claimed): after a successful routing request for an itinerary with
\* at least 2 coordinate-bearing items the active route has a path of at
\* least 2 points and one waypoint per coordinate-bearing item, in order.
C5_SuccessYieldsRoute ==
    (AnsweredCurrentItinerary /\ ~RequestFailed(lastEvent.data.response))
        => /\ IsSome(mapRoute)
           /\ IsSome(Get(mapRoute).path)
           /\ Len(Get(Get(mapRoute).path)) >= 2
           /\ IsSome(Get(mapRoute).waypoints)
           /\ Len(Get(Get(mapRoute).waypoints)) = Len(ItemsWithCoords(itinerary))
           /\ \A k \in 1..Len(ItemsWithCoords(itinerary)) :
                 Get(Get(mapRoute).waypoints)[k].location =
                     Some(ItemsWithCoords(itinerary)[k].name)

\* C6 (as claimed): when the itinerary changes to one with no coordinate-
\* bearing item, the route shown for the earlier itinerary is no longer
\* active.
C6_NoCoordinatesNoRoute ==
    [][(itinerary' /= itinerary /\ IsRouteOf(mapRoute, itinerary)
            /\ Len(ItemsWithCoords(itinerary')) = 0)
          => mapRoute' = None]_vars

\* C7 (as claimed): when the itinerary changes to one with exactly one
\* coordinate-bearing item, the route shown for the earlier itinerary is no
\* longer active and a fly-to for that item is issued.
C7_SingleItemNoRoute ==
    [][(itinerary' /= itinerary /\ IsRouteOf(mapRoute, itinerary)
            /\ Len(ItemsWithCoords(itinerary')) = 1)
          => /\ mapRoute' = None
             /\ IsSome(flyToTarget')
             /\ Get(flyToTarget').coordinates =
                   Get(ItemsWithCoords(itinerary')[1].coordinates)]_vars

\* two characters that differ at most in case
SameLetter(c, d) == c = d \/ { c, d } \in { { "a", "A" }, { "b", "B" } }

\* name contains s, case-insensitively
ContainsIgnoringCase(name, s) ==
    \E k \in 0..(Len(name) - Len(s)) :
        \A j \in 1..Len(s) : SameLetter(name[k + j], s[j])

\* C8: ITINERARY_REMOVE with item_name s leaves exactly the items whose name
\* does not contain s case-insensitively, in their original order (so the
\* itinerary is unchanged when nothing matches).
C8_RemoveByName ==
    [][(IsReceived(lastEvent', "ITINERARY_REMOVE") /\ IsSome(lastEvent'.data.item_name))
          => LET s == Get(lastEvent'.data.item_name)
                 Stays(i) == ~ContainsIgnoringCase(i.name, s)
             IN itinerary' = SelectSeq(itinerary, Stays)]_vars

\* C8 witness: the remove of "AB" was processed and took "Ab" and "aB" out of
\* an itinerary that keeps "B".
C8_RemovedTwoOfThree ==
    /\ IsReceived(lastEvent, "ITINERARY_REMOVE")
    /\ lastEvent.data.item_name = Some(<< "A", "B" >>)
    /\ itinerary = << ItemA1 >>
    /\ BagIn(<< ItemR1, ItemH1 >>, routeRequests)

----------------------------------------------------------------------------
(* Markers: the MAP_UPDATE and ROUTE_UPDATE events. *)

Place(name) == [name |-> Some(<< name >>), coordinates |-> Some(<< name, name >>)]

Places(restaurants, activities, hotels) ==
    [restaurants |-> restaurants, activities |-> activities, hotels |-> hotels]

Stop(location, coordinates) == [location |-> location, coordinates |-> coordinates]

StopX == Stop(Some(<< "X" >>), Some(<< "1", "1" >>))
StopY == Stop(Some(<< "Y" >>), Some(<< "2", "2" >>))
StopZ == Stop(Some(<< "Z" >>), Some(<< "3", "3" >>))
StopUnnamed == Stop(None, Some(<< "4", "4" >>))

SomePath == Some(<< << "1", "1" >>, << "3", "3" >> >>)

MapMessages ==
    { MapUpdateMessage(Some(Places(Some(<< Place("P") >>), None, None))),
      MapUpdateMessage(Some(Places(None, Some(<< Place("Q") >>), Some(<< Place("P") >>)))),
      MapUpdateMessage(Some(Places(Some(<< >>), None, None))),
      MapUpdateMessage(None),
      RouteUpdateMessage(None, SomePath, Some(<< StopX, StopY, StopZ >>)),
      RouteUpdateMessage(Some(Route(SomePath, Some(<< StopY >>))), None, None),
      RouteUpdateMessage(Some(Route(SomePath, Some(<< StopX, StopY, StopX >>))), None, None),
      RouteUpdateMessage(Some(Route(SomePath, Some(<< StopUnnamed, StopZ >>))), None, None),
      RouteUpdateMessage(Some(Route(SomePath, None)), None, None),
      RouteUpdateMessage(None, None, None) }

NextMarkers == \E data \in MapMessages : DataReceived(data)

SpecMarkers == Init /\ [][NextMarkers]_vars

IsWaypoint(m) == m.type = "waypoint"

\* the waypoint list a ROUTE_UPDATE message carries, if any
CarriedWaypoints(data) ==
    IF IsSome(data.waypoints) THEN data.waypoints
    ELSE IF IsSome(data.route) THEN Get(data.route).waypoints
    ELSE Some(<< >>)

\* C9: the marker list never holds more than 2 waypoint markers, and after a
\* ROUTE_UPDATE that carries stops they stand at the first stop and, when
\* there are two of them, at the last stop.
C9_AtMostTwoWaypointMarkers ==
    LET shown == SelectSeq(mapMarkers, IsWaypoint) IN
    /\ Len(shown) <= 2
    /\ (IsReceived(lastEvent, "ROUTE_UPDATE") /\ IsSome(CarriedWaypoints(lastEvent.data)))
         => LET stops == Get(CarriedWaypoints(lastEvent.data)) IN
            /\ Len(stops) = 0 => Len(shown) = 0
            /\ Len(stops) > 0 =>
                 /\ Len(shown) >= 1
                 /\ shown[1].coordinates = stops[1].coordinates
                 /\ Len(shown) = 2 => shown[2].coordinates = stops[Len(stops)].coordinates

\* C9 witness: a ROUTE_UPDATE with three stops was processed and left two
\* waypoint markers beside two place markers.
C9_ThreeStopsTwoMarkers ==
    /\ IsReceived(lastEvent, "ROUTE_UPDATE")
    /\ lastEvent.data.waypoints = Some(<< StopX, StopY, StopZ >>)
    /\ Len(SelectSeq(mapMarkers, IsWaypoint)) = 2
    /\ Len(mapMarkers) = 4

----------------------------------------------------------------------------
(* Agent status: the AGENT_STATE events and the expiry timers. *)

AgentMessages ==
    { AgentStateMessage(Some("thinking"), Some("search_restaurants"), Some("Searching")),
      AgentStateMessage(Some("thinking"), Some("update_map"), None),
      AgentStateMessage(Some("thinking"), None, Some("Thinking")),
      AgentStateMessage(Some("speaking"), Some("search_hotels"), None),
      AgentStateMessage(None, Some(""), None) }

NextNotify ==
    \/ \E data \in AgentMessages : DataReceived(data)
    \/ \E id \in expiryTimers : NotificationExpires(id)

SpecNotify == Init /\ [][NextNotify]_vars

\* the event is an AGENT_STATE with state "thinking" and a tool name
IsToolCall(event) ==
    /\ IsReceived(event, "AGENT_STATE")
    /\ event.data.state = Some("thinking")
    /\ IsSome(event.data.tool_name)
    /\ Get(event.data.tool_name) /= ""

\* C10: the notification queue never holds more than 3 entries, and a push
\* puts the new entry last behind the most recent entries, dropping the
\* oldest ones when there would be more than 3.
C10_QueueCapFifo ==
    /\ [](Len(toolNotifications) <= 3)
    /\ [][IsToolCall(lastEvent') /\ nextNotificationId' /= nextNotificationId
            => LET old == toolNotifications
                   new == toolNotifications'
                   kept == IF Len(old) >= 3 THEN 2 ELSE Len(old)
               IN /\ Len(new) = kept + 1
                  /\ new[Len(new)].tool = Get(lastEvent'.data.tool_name)
                  /\ \A k \in 1..kept : new[k] = old[Len(old) - kept + k]]_vars

\* C10 witness: a push found the queue full and evicted the oldest entry,
\* whose expiry timer is still pending.
C10_OldestEvicted ==
    /\ IsToolCall(lastEvent)
    /\ Len(toolNotifications) = 3
    /\ toolNotifications[1].id = 2
    /\ 1 \in expiryTimers

----------------------------------------------------------------------------
(* Payment: the checkout requests and the steps of handleCheckout. *)

PaymentMessages == { PaymentExecuteMessage, ItineraryAddMessage(ItemA1) }

NextPayment ==
    \/ \E data \in PaymentMessages : DataReceived(data)
    \/ CheckoutClick
    \/ \E result \in { Ok } \cup VendorErrors : VendorFetched(result)
    \/ \E result \in { Ok } \cup BlockhashErrors : BlockhashFetched(result)
    \/ \E result \in { Ok } \cup SendErrors : TransactionSent(result)
    \/ \E result \in { Ok } \cup ConfirmErrors : TransactionConfirmed(result)
    \/ DismissTimerFires
    \/ DismissClick
    \/ WalletChanges
    \/ CloseWalletOverlay

SpecPayment == Init /\ [][NextPayment]_vars

\* the event is a checkout request: the button or PAYMENT_EXECUTE
IsCheckoutRequest(event) ==
    event.op = "CheckoutClick" \/ IsReceived(event, "PAYMENT_EXECUTE")

\* C1 (as claimed): at most one checkout is in flight, and a checkout request
\* that arrives while one is in flight leaves the payment state unchanged.
C1_OneCheckoutInFlight ==
    /\ [](BagCardinality(checkouts) <= 1)
    /\ [][(IsCheckoutRequest(lastEvent') /\ BagCardinality(checkouts) >= 1)
            => UNCHANGED << paymentStatus, isProcessingPayment, checkouts >>]_vars

\* the event is an awaited call of handleCheckout throwing
IsCheckoutFailure(event) ==
    /\ event.op \in { "VendorFetched", "BlockhashFetched", "TransactionSent",
                      "TransactionConfirmed" }
    /\ event.data /= Ok

\* C11: a checkout that fails at the vendor lookup, the blockhash fetch, the
\* wallet send or the confirmation ends with the payment status "error", a
\* non-empty message and the processing flag reset; the status is not left
\* at "pending".
C11_FailureEndsInError ==
    IsCheckoutFailure(lastEvent) =>
        /\ paymentStatus.type = Some("error")
        /\ paymentStatus.message /= ""
        /\ ~isProcessingPayment

\* the wallet threw an error without a message and the default text is shown
C11_SendFailedWithoutMessage ==
    /\ lastEvent = Event("TransactionSent", Error("WalletNotConnectedError", ""))
    /\ paymentStatus = Status(Some("error"), "Payment failed. Please try again.")
    /\ ~isProcessingPayment

\* C12: a checkout request made while no wallet is connected starts no
\* transfer and leaves the payment state as it was (idle stays idle); the
\* only thing it does is show the connect-wallet overlay.
C12_NoWalletNoCheckout ==
    [][(IsCheckoutRequest(lastEvent') /\ ~walletConnected)
          => /\ showWalletOverlay'
             /\ UNCHANGED << walletConnected, isProcessingPayment, paymentStatus,
                             checkouts, dismissTimers, transfers, itineraryVars,
                             mapMarkers, agentVars >>]_vars

\* PAYMENT_EXECUTE arrived with no wallet connected: the overlay is up and
\* the payment state is idle
C12_PromptedToConnect ==
    /\ IsReceived(lastEvent, "PAYMENT_EXECUTE")
    /\ ~walletConnected
    /\ showWalletOverlay
    /\ paymentStatus = NoStatus
    /\ ~isProcessingPayment
    /\ checkouts = EmptyBag
    /\ transfers = { }

\* C13: every transfer handed to the wallet carries the same amount, 0.5 SOL
\* in lamports, whatever the itinerary holds and whatever total is displayed.
C13_FixedAmount ==
    \A transfer \in transfers : transfer.lamports = 500000000

\* two checkouts were sent while the panel showed different totals
C13_TwoTotalsOneAmount ==
    \E first, second \in transfers :
        /\ first.shownTotal /= second.shownTotal
        /\ first.lamports = second.lamports

----------------------------------------------------------------------------
(* Research: the panel's research run against the research route. Items of *)
(* a type the route has no entry for make getResearchForItem throw.         *)

ItemM1 == Item("m1", << "M" >>, "museum", 20, None)
ItemM2 == Item("m2", << "N" >>, "museum", 25, None)

ResearchItems == { ItemA1, ItemM1, ItemM2 }

NextResearch ==
    \/ \E item \in ResearchItems : DataReceived(ItineraryAddMessage(item))
    \/ StartResearchClick
    \/ POST
    \/ ErrorResponse
    \/ FetchRejects
    \/ ResearchSettles
    \/ \E intact \in BOOLEAN : ReadChunk(intact)
    \/ ReadThrows
    \/ ReadDone
    \/ closeModal

SpecResearch == Init /\ [][NextResearch]_vars

\* the timer getResearchForItem awaits (route.ts 31) always fires
SpecResearchLive == SpecResearch /\ WF_stream(Iteration)

IsTerminal(record) == TypeOf(record) \in { "item_complete", "item_error" }

Positions(emitted, type) == { j \in 1..Len(emitted) : TypeOf(emitted[j]) = type }

TerminalsOf(emitted, k) ==
    { j \in 1..Len(emitted) : IsTerminal(emitted[j]) /\ emitted[j].current = k }

\* the stream of a non-empty request
IsItemStream(s) == Len(s.items) > 0

EndsWithOneComplete(s) ==
    /\ Cardinality(Positions(s.emitted, "complete")) = (IF s.closed THEN 1 ELSE 0)
    /\ s.closed => TypeOf(s.emitted[Len(s.emitted)]) = "complete"

EveryItemAnswered(s) ==
    /\ s.closed => \A k \in 1..Len(s.items) : Cardinality(TerminalsOf(s.emitted, k)) = 1
    /\ \A j \in 1..Len(s.emitted) :
          IsTerminal(s.emitted[j]) =>
              (TypeOf(s.emitted[j]) = "item_error"
                  <=> getResearchForItem(s.items[s.emitted[j].current]) = None)

\* C14: for a non-empty itinerary the research stream ends, and it ends with
\* exactly one complete record as its last record, also when every item
\* fails; an item that fails gets an item_error record and the items after
\* it are still processed.
C14_OneCompleteLast ==
    /\ [](IsSome(stream) /\ IsItemStream(Get(stream))
            => EndsWithOneComplete(Get(stream)) /\ EveryItemAnswered(Get(stream)))
    /\ (StreamOpen ~> ~StreamOpen)

\* the stream of two items that both failed has ended with complete
C14_AllFailedStillComplete ==
    /\ IsSome(stream)
    /\ Get(stream).closed
    /\ Get(stream).items = << ItemM1, ItemM2 >>
    /\ Cardinality(Positions(Get(stream).emitted, "item_error")) = 2
    /\ Get(stream).emitted[5] = CompleteRecord(<< >>, 2)

\* C15: the stream handles the items one at a time in itinerary order: the
\* progress record of an item follows directly on the item_complete or
\* item_error record of the item before it, and current goes from 1 to total
\* in steps of one.
C15_OneItemAtATime ==
    IsSome(stream) /\ IsItemStream(Get(stream)) =>
        LET s == Get(stream)
            e == s.emitted
        IN \A j \in 1..Len(e) :
              /\ TypeOf(e[j]) = "progress" =>
                    /\ e[j].current \in 1..Len(s.items)
                    /\ e[j].itemName = s.items[e[j].current].name
                    /\ IF j = 1 THEN e[j].current = 1
                       ELSE /\ IsTerminal(e[j - 1])
                            /\ e[j].current = e[j - 1].current + 1
              /\ IsTerminal(e[j]) =>
                    /\ j > 1
                    /\ TypeOf(e[j - 1]) = "progress"
                    /\ e[j].current = e[j - 1].current
              /\ TypeOf(e[j]) = "complete" =>
                    /\ j > 1
                    /\ IsTerminal(e[j - 1])
                    /\ e[j - 1].current = Len(s.items)

\* a stream of three items has ended: seven records, the third item last
C15_ThreeItemsInOrder ==
    /\ IsSome(stream)
    /\ Get(stream).closed
    /\ Len(Get(stream).items) = 3
    /\ Len(Get(stream).emitted) = 7
    /\ Get(stream).emitted[5].type = "progress"
    /\ Get(stream).emitted[5].current = 3

\* C16 (as claimed): a research run that has ended, however its response
\* ended, has left the modal in the complete state.
C16_RunEndsComplete ==
    (showResearchModal /\ startResearch.at = "idle") => isResearchComplete

----------------------------------------------------------------------------
(* Room: connecting, receiving agent states, leaving. *)

NextRoom ==
    \/ \E ok \in BOOLEAN : TokenFetched(ok)
    \/ \E ok \in BOOLEAN : RoomConnects(ok)
    \/ MediaEnabled
    \/ LeaveClick
    \/ Unmount
    \/ \E data \in AgentMessages : Delivered(data)
    \/ \E id \in expiryTimers : mounted /\ NotificationExpires(id)

SpecRoom == Init /\ [][NextRoom]_vars

\* C17 (as claimed): when the page is left after the room has connected and
\* been stored, the room is disconnected.
C17_UnmountDisconnects ==
    [][(lastEvent'.op = "Unmount" /\ mounted /\ roomState = "connected" /\ IsSome(room))
          => roomState' = "disconnected"]_vars

----------------------------------------------------------------------------
(* Inbound: messages of every recognized type and messages of other types, *)
(* the latter carrying every payload field a recognized type would read.    *)

RecognizedTypes ==
    { "AGENT_STATE", "ITINERARY_ADD", "ITINERARY_REMOVE", "ITINERARY_CLEAR",
      "PAYMENT_EXECUTE", "MAP_UPDATE", "ROUTE_UPDATE" }

Loaded ==
    [Message EXCEPT !.item = Some(ItemH1), !.item_name = Some(<< "B" >>),
                    !.state = Some("speaking"), !.tool_name = Some("search_hotels"),
                    !.thinking_message = Some("Searching"),
                    !.data = Some(Places(Some(<< Place("Q") >>), None, None)),
                    !.route = Some(Route(SomePath, Some(<< StopY, StopZ >>))),
                    !.path = SomePath, !.waypoints = Some(<< StopY, StopZ >>)]

UnknownMessages ==
    { [Loaded EXCEPT !.type = type] :
        type \in { None, Some("itinerary_add"), Some("PING") } }

InboundMessages ==
    UnknownMessages
    \cup { ItineraryAddMessage(ItemA1),
           MapUpdateMessage(Some(Places(Some(<< Place("P") >>), None, None))),
           RouteUpdateMessage(None, SomePath, Some(<< StopX, StopY >>)),
           AgentStateMessage(Some("thinking"), Some("search_restaurants"), None),
           PaymentExecuteMessage }

NextInbound ==
    \/ \E data \in InboundMessages : DataReceived(data)
    \/ WalletChanges
    \/ \E result \in VendorErrors : VendorFetched(result)

SpecInbound == Init /\ [][NextInbound]_vars

IsRecognized(data) == \E type \in RecognizedTypes : TypeIs(data, type)

\* C18: a message whose type is none of the recognized ones, or that has no
\* type, leaves itinerary, route, markers, agent status, notifications and
\* payment state as they were.
C18_UnknownTypeIgnored ==
    [][(lastEvent'.op = "DataReceived" /\ ~IsRecognized(lastEvent'.data))
          => UNCHANGED << itineraryVars, mapMarkers, agentVars, paymentVars >>]_vars

\* a message without a type arrived when every part of the state was in use
C18_UntypedAmidState ==
    /\ lastEvent.op = "DataReceived"
    /\ lastEvent.data.type = None
    /\ itinerary = << ItemA1 >>
    /\ IsSome(mapRoute)
    /\ Len(mapMarkers) = 3
    /\ agentState = "thinking"
    /\ Len(toolNotifications) = 2
    /\ paymentStatus.type = Some("pending")

----------------------------------------------------------------------------
(* Route and itinerary under asynchronous route computation (Spec). *)

\* C19 (as claimed): once no route computation is in flight and the last one
\* to complete has set the route, the active route of an itinerary with at
\* least 2 coordinate-bearing items has exactly those items, in itinerary
\* order, as its waypoints: the answer for an older itinerary does not stay.
C19_RouteFollowsItinerary ==
    ( /\ routeRequests = EmptyBag
      /\ Len(ItemsWithCoords(itinerary)) >= 2
      /\ lastEvent.op = "RouteResponse"
      /\ IsRouteOf(mapRoute, lastEvent.data.items) )
        => IsRouteOf(mapRoute, itinerary)

\* the event adds `item`: the inbound ITINERARY_ADD or the popup's button
IsAddOf(event, item) ==
    \/ IsReceived(event, "ITINERARY_ADD") /\ event.data.item = Some(item)
    \/ event.op = "handleAddToItinerary" /\ event.data = item

\* C20 (as claimed): an add whose id is already in the itinerary changes
\* neither the itinerary nor the focus command (nor the route).
C20_DuplicateAddIsNoOp ==
    [][\A item \in Items :
          (IsAddOf(lastEvent', item) /\ SomeId(itinerary, item.id))
              => UNCHANGED << itinerary, flyToTarget, mapRoute, routeRequests >>]_vars

\* ---------------------------------------------------------------------------
\* The end of a checkout (page.tsx 341-374)

\* the checkout has ended and its outcome is on display
IsTerminalStatus(status) ==
    status.type \in { Some("success"), Some("error") }

\* C21 (as claimed): a payment status of success or error is cleared by a
\* display timeout without any user action, so whenever one of the two is on
\* display a timer that will clear it is pending.
C21_TerminalStatusTimesOut ==
    IsTerminalStatus(paymentStatus) => dismissTimers > 0

\* C29 (as claimed): while a checkout is in flight the payment status is
\* pending and the processing flag is true; neither the display timeout of an
\* earlier payment nor the end of another checkout changes that.
C29_InFlightStaysPending ==
    [][ ( /\ BagCardinality(checkouts') > 0
          /\ lastEvent'.op \in { "DismissTimerFires", "VendorFetched", "BlockhashFetched",
                                 "TransactionSent", "TransactionConfirmed" } )
        => ( paymentStatus'.type = Some("pending") /\ isProcessingPayment' ) ]_vars

\* C29 (as claimed, one checkout at a time): the display timeout of an earlier
\* payment leaves the status of the only checkout in flight pending.
C29_TimeoutSparesPending ==
    [][ ( /\ BagCardinality(checkouts) = 1
          /\ paymentStatus.type = Some("pending")
          /\ lastEvent'.op = "DismissTimerFires" )
        => paymentStatus'.type = Some("pending") ]_vars

\* ---------------------------------------------------------------------------
\* The marker list under MAP_UPDATE and ROUTE_UPDATE (page.tsx 224-284)

\* C22 (as claimed): no two entries of the marker list share an id, so a
\* MAP_UPDATE delivered for the second time adds nothing to the list.
C22_MarkerIdsUnique ==
    \A j, k \in 1..Len(mapMarkers) :
        mapMarkers[j].id = mapMarkers[k].id => j = k

IsPlaceMarker(m) == m.type \in { "restaurant", "hotel", "activity" }

\* C24: a ROUTE_UPDATE leaves the restaurant, hotel and activity markers as
\* they were, the same entries in the same order.
C24_RouteUpdateKeepsPlaces ==
    [][IsReceived(lastEvent', "ROUTE_UPDATE")
          => SelectSeq(mapMarkers', IsPlaceMarker) = SelectSeq(mapMarkers, IsPlaceMarker)]_vars

\* a ROUTE_UPDATE with one stop arrived and left its marker behind three
\* place markers
C24_StopAmongPlaces ==
    /\ IsReceived(lastEvent, "ROUTE_UPDATE")
    /\ CarriedWaypoints(lastEvent.data) = Some(<< StopY >>)
    /\ Len(SelectSeq(mapMarkers, IsPlaceMarker)) = 3
    /\ Len(SelectSeq(mapMarkers, IsWaypoint)) = 1

IsPrefix(s, t) == Len(s) <= Len(t) /\ SubSeq(t, 1, Len(s)) = s

\* the names the payload lists under the array that feeds markers of this type
NamesInPayload(data, type) ==
    LET d == Get(data.data)
        places == IF type = "restaurant" THEN d.restaurants
                  ELSE IF type = "activity" THEN d.activities
                  ELSE d.hotels
    IN IF IsSome(data.data) /\ IsSome(places)
       THEN { Get(places)[k].name : k \in 1..Len(Get(places)) }
       ELSE { }

\* C25: a MAP_UPDATE only appends markers for the restaurants, activities and
\* hotels of its payload: the markers that were there are still there, in
\* place, and route, itinerary and agent status are unchanged.
C25_MapUpdateOnlyAppends ==
    [][IsReceived(lastEvent', "MAP_UPDATE")
          => /\ IsPrefix(mapMarkers, mapMarkers')
             /\ \A k \in (Len(mapMarkers) + 1)..Len(mapMarkers') :
                    /\ IsPlaceMarker(mapMarkers'[k])
                    /\ mapMarkers'[k].id \in NamesInPayload(lastEvent'.data, mapMarkers'[k].type)
             /\ UNCHANGED << itineraryVars, agentVars >>]_vars

\* a MAP_UPDATE arrived when markers, a route, an itinerary and an agent
\* status were in place, and added its marker
C25_AppendedAmidState ==
    /\ IsReceived(lastEvent, "MAP_UPDATE")
    /\ Len(mapMarkers) >= 3
    /\ IsPlaceMarker(mapMarkers[Len(mapMarkers)])
    /\ \E k \in 1..Len(mapMarkers) : IsWaypoint(mapMarkers[k])
    /\ Len(itinerary) > 0
    /\ IsSome(mapRoute)
    /\ Len(toolNotifications) > 0

\* ---------------------------------------------------------------------------
\* The progress shown during a research run (itinerary-panel.tsx 504-518)

\* the records the client has read that report the end of an item's research
RECURSIVE CompletionsIn(_)
CompletionsIn(records) ==
    IF Len(records) = 0 THEN 0
    ELSE (IF TypeOf(records[1]) \in { "item_complete", "item_error" } THEN 1 ELSE 0)
         + CompletionsIn(Tail(records))

CompletionsReceived == CompletionsIn(SubSeq(Get(stream).emitted, 1, consumed))

\* C27 (as claimed): while the client reads a research stream the percentage
\* it shows is at most 100 * (items whose completion it has received) / total,
\* rounded; it is not 100 while the last item is still being researched.
C27_ProgressCountsCompletions ==
    (startResearch.at = "read" /\ IsItemStream(Get(stream)))
        => /\ researchProgress
                <= Round(100 * CompletionsReceived, Len(Get(stream).items))
           /\ (StreamOpen => researchProgress < 100)

\* ---------------------------------------------------------------------------
\* The two ways of adding an item (page.tsx 154-172 and 383-400)

\* C28: the inbound ITINERARY_ADD and the local add, applied to the same
\* itinerary with the same item, leave the same itinerary and the same focus
\* command; whichever of the two an add comes through, the itinerary after it
\* is the one the other would have left.
C28_LocalAddEqualsRemoteAdd ==
    /\ [](\A item \in Items :
             ItineraryAdded(itinerary, flyToTarget, item)
                 = AddedToItinerary(itinerary, flyToTarget, item))
    /\ [][\A item \in Items :
             IsAddOf(lastEvent', item)
                 => /\ itinerary' = ItineraryAdded(itinerary, flyToTarget, item).itinerary
                    /\ itinerary' = AddedToItinerary(itinerary, flyToTarget, item).itinerary]_vars

\* a local add of an id that is already listed, after adds of two other ids
C28_LocalAddOfListedId ==
    /\ lastEvent.op = "handleAddToItinerary"
    /\ lastEvent.data = ItemR1b
    /\ Len(itinerary) = 3
    /\ \E k \in 1..Len(itinerary) : itinerary[k] = ItemR1
    /\ IsSome(flyToTarget)

\* ---------------------------------------------------------------------------
\* The expiry of tool notifications (page.tsx 142-152)

\* the timer of notification `id` leaves the set of pending timers
TimerRuns(id) ==
    /\ id \in expiryTimers
    /\ expiryTimers' = expiryTimers \ { id }

\* Every setTimeout callback runs once its 3000 ms have passed: the page's
\* event loop reaches each pending expiry timer.
SpecNotifyLive ==
    SpecNotify /\ \A id \in 1..MaxNotifications : WF_expiryTimers(TimerRuns(id))

\* the notification with this id is in the queue
IsQueued(id) == \E k \in 1..Len(toolNotifications) : toolNotifications[k].id = id

\* C26: every notification pushed onto the queue is eventually no longer in
\* it, and an expiry timer takes out of the queue the notification it was
\* created for and no other, leaving the rest in order.
C26_NotificationsExpire ==
    /\ \A id \in 1..MaxNotifications : IsQueued(id) ~> ~IsQueued(id)
    /\ [][lastEvent'.op = "NotificationExpires"
            => LET IsOther(n) == n.id /= lastEvent'.data.id
               IN /\ toolNotifications' = SelectSeq(toolNotifications, IsOther)
                  /\ ~(lastEvent'.data.id \in expiryTimers')]_vars

\* the timer of a notification that had been evicted fired and found three
\* later notifications in the queue
C26_TimerOfEvictedFired ==
    /\ lastEvent.op = "NotificationExpires"
    /\ lastEvent.data.id = 1
    /\ Len(toolNotifications) = 3
    /\ toolNotifications[1].id = 2

\* ---------------------------------------------------------------------------
\* Malformed inbound messages (page.tsx 125-192)

\* an ITINERARY_ADD without `item`
ItineraryAddWithoutItem == [Message EXCEPT !.type = Some("ITINERARY_ADD")]

MalformedMessages == { ItineraryAddWithoutItem, MapUpdateMessage(None) }

WellFormedMessages ==
    { ItineraryAddMessage(ItemA1), ItineraryAddMessage(ItemR1),
      MapUpdateMessage(Some(Places(Some(<< Place("P") >>), None, None))),
      AgentStateMessage(Some("thinking"), Some("search_restaurants"), None) }

NextMalformed ==
    \/ \E ok \in BOOLEAN : TokenFetched(ok)
    \/ \E ok \in BOOLEAN : RoomConnects(ok)
    \/ MediaEnabled
    \/ \E data \in MalformedMessages \cup WellFormedMessages : Delivered(data)
    \/ mounted /\ roomState = "connected" /\ ParseFails

SpecMalformed == Init /\ [][NextMalformed]_vars

\* the packet is no JSON, or it is of a recognized type and lacks the payload
\* of that type
IsMalformed(event) ==
    \/ event.op = "ParseFails"
    \/ IsReceived(event, "ITINERARY_ADD") /\ ~IsSome(event.data.item)
    \/ IsReceived(event, "MAP_UPDATE") /\ ~IsSome(event.data.data)

\* C23 (as claimed): a malformed inbound message is ignored as a whole: it
\* changes no part of the view state, and the page goes on processing the
\* events that follow it.
C23_MalformedIgnored ==
    [][IsMalformed(lastEvent')
          => UNCHANGED << itineraryVars, mapMarkers, agentVars, paymentVars, mounted >>]_vars

\* ---------------------------------------------------------------------------
\* Agent dispatch by the token route (part_007 40-75)

NextToken ==
    \/ \E r \in 1..MaxTokenRequests : TokenRequested(r)
    \/ \E r \in 1..MaxTokenRequests, threw \in BOOLEAN : ParticipantsListed(r, threw)
    \/ \E r \in 1..MaxTokenRequests, created \in BOOLEAN : DispatchSettled(r, created)
    \/ AgentJoins
    \/ UserJoins

SpecToken == Init /\ [][NextToken]_vars

\* C30 (as claimed): whatever the interleaving of token requests for a room,
\* at most one agent dispatch is created for it, and at no time have two
\* requests both called createDispatch.
C30_AtMostOneDispatch ==
    /\ dispatches <= 1
    /\ Cardinality({ r \in 1..MaxTokenRequests :
                        tokenRequests[r].at = "createDispatch" }) <= 1

====
